---------------------------- MODULE Spec2Model ----------------------------
(***************************************************************************)
(* Model of FinanceSolution's app.py: the calculator functions (emi,       *)
(* loan_summary, gst_breakup, fd_maturity, rd_maturity,                    *)
(* estimate_credit_score), the two module-level tables and the Flask       *)
(* request handlers.                                                       *)
(*                                                                         *)
(* Numbers.  The program computes on Python floats.  Here every quantity   *)
(* is an exact rational kept as an integer in a fixed unit:                *)
(*   - money, given and returned, is counted in 1/MoneyUnit, one decimal   *)
(*     digit more than round(x, 2) keeps;                                  *)
(*   - percentages and years given to the credit score are in tenths;      *)
(*   - currency amounts are counted in 1/CurrencyUnit, one decimal digit   *)
(*     more than round(x, 4) keeps, table and custom rates in hundredths.  *)
(* round(x, d) is Python's round-half-to-even at d decimals, computed on   *)
(* the exact value.  Where the exact value lies on a half, the binary      *)
(* representation of the float decides the direction in the program; the   *)
(* input sets below hold no such input, and on them (also with the bounds  *)
(* raised by one) every result and every exception of the model is the     *)
(* one the program gives.  A Python exception is a result with ok = FALSE  *)
(* and the exception's name.                                               *)
(***************************************************************************)
EXTENDS Integers, Sequences, FiniteSets, TLC

VARIABLES
    STATIC_RATES_BASE_USD,   \* module global: currency code -> rate (hundredths)
    BANK_HOLIDAYS_2025_IN,   \* module global: sequence of [date, name]
    inflight,                \* worker -> the request being handled, or NoRequest
    response,                \* worker -> the response produced, or NoResponse
    calls,                   \* worker -> calculator functions called for the request
    conv,                    \* worker -> inline conversions done by api_currency
    fn,                      \* the calculator function applied directly
    args,                    \* its arguments
    ret,                     \* its result, or NotCalled
    ret2                     \* the result of the follow-up call, or NotCalled

vars == <<STATIC_RATES_BASE_USD, BANK_HOLIDAYS_2025_IN, inflight, response,
          calls, conv, fn, args, ret, ret2>>

serverVars == <<STATIC_RATES_BASE_USD, BANK_HOLIDAYS_2025_IN, inflight,
                response, calls, conv>>

-----------------------------------------------------------------------------
(* Arithmetic helpers *)

Abs(x) == IF x < 0 THEN -x ELSE x

Max(a, b) == IF a >= b THEN a ELSE b

Min(a, b) == IF a <= b THEN a ELSE b

RECURSIVE Gcd(_, _)
Gcd(a, b) == IF b = 0 THEN Abs(a) ELSE Gcd(b, a % Abs(b))

RECURSIVE Pow(_, _)
Pow(b, k) == IF k = 0 THEN 1 ELSE b * Pow(b, k - 1)

\* Python's round(): the integer nearest to n/d (d # 0), ties to even.
RoundHalfEven(n, d) ==
    LET nn == IF d > 0 THEN n ELSE -n
        dd == Abs(d)
        q  == nn \div dd
        r  == nn % dd
    IN  IF 2 * r < dd THEN q
        ELSE IF 2 * r > dd THEN q + 1
        ELSE IF q % 2 = 0 THEN q ELSE q + 1

\* round(x, 2) and round(x, 4) keep this many decimals.
MoneyDigits == 2
CurrencyDigits == 4

\* Money is counted in 1/MoneyUnit; Sub of these make one cent.
Cent == Pow(10, MoneyDigits)
MoneyUnit == 10 * Cent
Sub == MoneyUnit \div Cent

\* Currency amounts are counted in 1/CurrencyUnit; CSub of these make one
\* unit of the last decimal that round(x, 4) keeps.
CurrencyUnit == 10 * Pow(10, CurrencyDigits)
CSub == CurrencyUnit \div Pow(10, CurrencyDigits)

\* round(n/d, 2) of a money value n/d, in the same unit.
Round2(n, d) == Sub * RoundHalfEven(n, d * Sub)

\* Mutant of Round4: two decimals are kept.
Round4As2(n, d) == CSub * 100 * RoundHalfEven(n, d * CSub * 100)

\* round(n/d, 4) of a currency amount n/d, in the same unit.
Round4(n, d) == CSub * RoundHalfEven(n, d * CSub)

\* The fraction n/d in lowest terms with a positive denominator (d # 0).
Reduce(n, d) ==
    LET g == Gcd(n, d)
        s == IF d < 0 THEN -1 ELSE 1
    IN  <<s * (n \div g), s * (d \div g)>>

NotCalled == [ok |-> FALSE, error |-> "not called"]

Raised(e) == [ok |-> FALSE, error |-> e]

-----------------------------------------------------------------------------
(* Calculator functions *)

\* emi(): principal in 1/MoneyUnit, annual_rate_percent a whole percent.
\* r = rn/rd is the monthly rate and (1 + r) ** months = A/B.
emi(principal, annual_rate_percent, months) ==
    IF principal <= 0 \/ months <= 0 THEN [ok |-> TRUE, value |-> 0]
    ELSE LET r  == Reduce(annual_rate_percent, 100 * 12)
             rn == r[1]
             rd == r[2]
             A  == Pow(rd + rn, months)
             B  == Pow(rd, months)
         IN  IF rn = 0 THEN [ok |-> TRUE, value |-> Round2(principal, months)]
             ELSE IF A = B THEN Raised("ZeroDivisionError")
             ELSE [ok |-> TRUE,
                   value |-> Round2(principal * rn * A, rd * (A - B))]

loan_summary(principal, annual_rate_percent, months) ==
    LET e == emi(principal, annual_rate_percent, months)
    IN  IF ~e.ok THEN e
        ELSE LET total_payment  == Round2(e.value * months, 1)
                 total_interest == Round2(total_payment - principal, 1)
             IN  [ok |-> TRUE, emi |-> e.value,
                  total_payment |-> total_payment,
                  total_interest |-> total_interest]

\* Mutant of gst_breakup: removing the tax multiplies by (1 - r).
gst_breakup_minus(amount, gst_rate_percent, mode) ==
    LET r == Reduce(gst_rate_percent, 100 * 100)
    IN  IF mode = "add"
        THEN LET tax == Round2(amount * r[1], r[2])
             IN  [ok |-> TRUE, base |-> amount, gst |-> tax,
                  gross |-> Round2(amount + tax, 1)]
        ELSE LET base == Round2(amount * (r[2] - r[1]), r[2])
             IN  [ok |-> TRUE, base |-> base,
                  gst |-> Round2(amount - base, 1), gross |-> amount]

\* gst_breakup(): amount in 1/MoneyUnit, gst_rate_percent in hundredths of
\* a percent, so r = gst_rate_percent / (100 * 100) = rn/rd.
gst_breakup(amount, gst_rate_percent, mode) ==
    LET r  == Reduce(gst_rate_percent, 100 * 100)
        rn == r[1]
        rd == r[2]
    IN  IF mode = "add"
        THEN LET tax   == Round2(amount * rn, rd)
                 gross == Round2(amount + tax, 1)
             IN  [ok |-> TRUE, base |-> amount, gst |-> tax, gross |-> gross]
        ELSE IF rn # 0 /\ rd + rn = 0 THEN Raised("ZeroDivisionError")
        ELSE LET base == IF rn # 0 THEN Round2(amount * rd, rd + rn)
                         ELSE amount
                 tax  == Round2(amount - base, 1)
             IN  [ok |-> TRUE, base |-> base, gst |-> tax, gross |-> amount]

\* fd_maturity(): principal in 1/MoneyUnit, annual_rate_percent a whole
\* percent, years a whole number (a float holding an integer), so the
\* exponent n * t is an integer.  1 + r/n = bn/bd.
fd_maturity(principal, annual_rate_percent, years, comp_per_year) ==
    LET n == comp_per_year
        t == years
    IN  IF n = 0 THEN Raised("ZeroDivisionError")
        ELSE LET b  == Reduce(100 * n + annual_rate_percent, 100 * n)
                 bn == b[1]
                 bd == b[2]
                 k  == n * t
             IN  IF k < 0 /\ bn = 0 THEN Raised("ZeroDivisionError")
                 ELSE LET pn == IF k >= 0 THEN Pow(bn, k) ELSE Pow(bd, -k)
                          pd == IF k >= 0 THEN Pow(bd, k) ELSE Pow(bn, -k)
                      IN  [ok |-> TRUE,
                           maturity |-> Round2(principal * pn, pd),
                           interest |-> Round2(principal * pn - principal * pd, pd)]

\* rd_maturity(): monthly_installment in 1/MoneyUnit; i = in/id is the
\* monthly rate and (1 + i) ** months = A/B.
rd_maturity(monthly_installment, annual_rate_percent, months) ==
    IF monthly_installment <= 0 \/ months <= 0
    THEN [ok |-> TRUE, maturity |-> 0, interest |-> 0]
    ELSE LET i  == Reduce(annual_rate_percent, 100 * 12)
             A  == Pow(i[2] + i[1], months)
             B  == Pow(i[2], months)
         IN  IF i[1] = 0
             THEN [ok |-> TRUE,
                   maturity |-> Round2(monthly_installment * months, 1),
                   interest |-> 0]
             ELSE LET mn == monthly_installment * (A - B) * (i[2] + i[1])
                      md == B * i[1]
                  IN  [ok |-> TRUE,
                       maturity |-> Round2(mn, md),
                       interest |-> Round2(mn - monthly_installment * months * md, md)]

\* Mutant of ClampPct: the upper clamp is missing.
ClampPctNoUpper(x) == Max(0, x)

\* max(0, min(100, x)), x in tenths of a percent.
ClampPct(x) == Max(0, Min(1000, x))

\* Mutant of estimate_credit_score: the utilization subscore is not inverted.
estimate_credit_score_util_up(payment_history_pct, utilization_pct, credit_age_years, inquiries, dti_pct) ==
    LET w == 35 * ClampPct(payment_history_pct) + 30 * ClampPct(utilization_pct)
             + 15 * Min(1000, Max(0, credit_age_years) * 10)
             + 10 * Max(0, 1000 - Max(0, inquiries) * 100)
             + 10 * Max(0, 1000 - ClampPct(dti_pct))
    IN  RoundHalfEven(300 * 100000 + w * (850 - 300), 100000)

\* estimate_credit_score(): percentages and years in tenths, inquiries an
\* integer.  The weights are in hundredths, so score_100 = w / 1000 and
\* score = 300 + (w / 1000 / 100) * (850 - 300).
estimate_credit_score(payment_history_pct, utilization_pct, credit_age_years, inquiries, dti_pct) ==
    LET ph   == ClampPct(payment_history_pct)
        util == ClampPct(utilization_pct)
        age  == Max(0, credit_age_years)
        inq  == Max(0, inquiries)
        dti  == ClampPct(dti_pct)
        s_payment == ph
        s_util    == Max(0, 1000 - util)
        s_age     == Min(1000, age * 10)
        s_inq     == Max(0, 1000 - inq * 100)
        s_dti     == Max(0, 1000 - dti)
        w == 35 * s_payment + 30 * s_util + 15 * s_age + 10 * s_inq + 10 * s_dti
    IN  RoundHalfEven(300 * 100000 + w * (850 - 300), 100000)

-----------------------------------------------------------------------------
(* The module-level tables *)

\* STATIC_RATES_BASE_USD, rates in hundredths.
InitialRates ==
    [c \in {"INR", "USD", "EUR", "GBP", "JPY", "AUD", "CAD"} |->
        CASE c = "INR" -> 8400
          [] c = "USD" -> 100
          [] c = "EUR" -> 91
          [] c = "GBP" -> 76
          [] c = "JPY" -> 15500
          [] c = "AUD" -> 145
          [] c = "CAD" -> 134]

InitialHolidays ==
    << [date |-> "2025-01-01", name |-> "New Year's Day"],
       [date |-> "2025-01-26", name |-> "Republic Day"],
       [date |-> "2025-03-14", name |-> "Holi"],
       [date |-> "2025-03-31", name |-> "Eid al-Fitr (Tentative)"],
       [date |-> "2025-04-14", name |-> "Dr. Ambedkar Jayanti"],
       [date |-> "2025-04-18", name |-> "Good Friday"],
       [date |-> "2025-05-01", name |-> "Maharashtra Day / Labour Day"],
       [date |-> "2025-08-15", name |-> "Independence Day"],
       [date |-> "2025-10-02", name |-> "Gandhi Jayanti"],
       [date |-> "2025-10-20", name |-> "Diwali (Tentative)"],
       [date |-> "2025-12-25", name |-> "Christmas Day"] >>

Workers == {"w1", "w2"}

NoRequest == [endpoint |-> "none", data |-> <<>>]

NoResponse == [status |-> 0, body |-> <<>>]

\* The state once the module is imported: the tables are set, no request
\* has arrived.
ServerInit ==
    /\ STATIC_RATES_BASE_USD = InitialRates
    /\ BANK_HOLIDAYS_2025_IN = InitialHolidays
    /\ inflight = [w \in Workers |-> NoRequest]
    /\ response = [w \in Workers |-> NoResponse]
    /\ calls = [w \in Workers |-> 0]
    /\ conv = [w \in Workers |-> 0]

-----------------------------------------------------------------------------
(* The calculators applied directly to bounded inputs *)

MaxMonths == 3
MaxYears == 2
MaxInquiries == 11

\* Money in 1/MoneyUnit: negative, zero, below a cent, between cents, whole.
MoneyInputs == {-1000, 0, 3, 11, 33, 127, 1000, 1003, 2999, 10000}

\* Principals in 1/MoneyUnit: negative, zero, below a cent, whole cents.
LoanPrincipals == {-1000, 0, 3, 40, 80, 1000, 2920, 10000}

\* Whole percents a year: monthly rates -2, -1/10, 0, 1/20, 1/10, 1/3, 1.
LoanRates == {-2400, -120, 0, 60, 120, 400, 1200}

RdRates == {-120, 0, 120, 400, 1200}

\* Hundredths of a percent: -100%, 0, 0.3%, 5%, 18%, 28%.
GstRates == {-10000, 0, 30, 500, 1800, 2800}

\* Money in 1/MoneyUnit given to gst_breakup: mostly whole cents.
GstAmounts == {-1000, 0, 3, 10, 70, 127, 1000, 1230, 2990, 10000}

GstModes == {"add", "remove", "other"}

FdRates == {-100, 0, 50, 100}

CompInputs == {-1, 0, 1, 2}

\* Tenths of a percent.
PctInputs == {-50, 0, 333, 505, 1000, 1200}

\* Tenths of a year.
AgeInputs == {-10, 0, 35, 100, 150}

CreditArgs ==
    [ph : PctInputs, util : PctInputs, age : AgeInputs,
     inq : -1 .. MaxInquiries, dti : PctInputs]

LoanArgs == [principal : LoanPrincipals, rate : LoanRates, months : -1 .. MaxMonths]

GstArgs == [amount : GstAmounts, rate : GstRates, mode : GstModes]

FdArgs == [principal : MoneyInputs, rate : FdRates, years : -1 .. MaxYears, comp : CompInputs]

RdArgs == [monthly : MoneyInputs, rate : RdRates, months : -1 .. MaxMonths]

CalcInit ==
    /\ ServerInit
    /\ \/ fn = "estimate_credit_score" /\ args \in CreditArgs
       \/ fn = "loan_summary" /\ args \in LoanArgs
       \/ fn = "gst_breakup" /\ args \in GstArgs
       \/ fn = "fd_maturity" /\ args \in FdArgs
       \/ fn = "rd_maturity" /\ args \in RdArgs
    /\ ret = NotCalled
    /\ ret2 = NotCalled

CallCreditScore ==
    /\ fn = "estimate_credit_score" /\ ret = NotCalled
    /\ ret' = [ok |-> TRUE,
               score |-> estimate_credit_score(args.ph, args.util, args.age,
                                               args.inq, args.dti)]
    /\ UNCHANGED <<serverVars, fn, args, ret2>>

CallLoanSummary ==
    /\ fn = "loan_summary" /\ ret = NotCalled
    /\ ret' = loan_summary(args.principal, args.rate, args.months)
    /\ UNCHANGED <<serverVars, fn, args, ret2>>

CallGstBreakup ==
    /\ fn = "gst_breakup" /\ ret = NotCalled
    /\ ret' = gst_breakup(args.amount, args.rate, args.mode)
    /\ UNCHANGED <<serverVars, fn, args, ret2>>

\* The gross amount of an "add" result handed back in "remove" mode.
CallGstRemoveOfGross ==
    /\ fn = "gst_breakup" /\ args.mode = "add"
    /\ ret # NotCalled /\ ret.ok /\ ret2 = NotCalled
    /\ ret2' = gst_breakup(ret.gross, args.rate, "remove")
    /\ UNCHANGED <<serverVars, fn, args, ret>>

CallFdMaturity ==
    /\ fn = "fd_maturity" /\ ret = NotCalled
    /\ ret' = fd_maturity(args.principal, args.rate, args.years, args.comp)
    /\ UNCHANGED <<serverVars, fn, args, ret2>>

CallRdMaturity ==
    /\ fn = "rd_maturity" /\ ret = NotCalled
    /\ ret' = rd_maturity(args.monthly, args.rate, args.months)
    /\ UNCHANGED <<serverVars, fn, args, ret2>>

CalcNext ==
    \/ CallCreditScore
    \/ CallLoanSummary
    \/ CallGstBreakup
    \/ CallGstRemoveOfGross
    \/ CallFdMaturity
    \/ CallRdMaturity

Calc == CalcInit /\ [][CalcNext]_vars

-----------------------------------------------------------------------------
(* The request handlers.  A request arrives at an idle worker (Receive),   *)
(* its handler runs to the response in one step, and the response is sent  *)
(* (Finish), which discards the request's records.  A request body is the  *)
(* parsed JSON object: a function from its keys to numbers and strings     *)
(* already of the type float() or int() gives them.  A key read with       *)
(* data.get may be absent.                                                 *)

EmptyBody == <<>>

Get(data, key, default) == IF key \in DOMAIN data THEN data[key] ELSE default

\* str.upper() on the currency codes of CurrencyCodes.
upper(code) ==
    CASE code = "usd" -> "USD"
      [] code = "inr" -> "INR"
      [] OTHER -> code

CurrencyCodes == {"usd", "USD", "INR", "XYZ"}

\* Amounts in 1/CurrencyUnit: 0.12346, 0.1234, 1.0.
CurrencyAmounts == {12346, 12340, 100000}

Today == {"2025-01-01", "2026-11-02"}

EmiData ==
    [principal : {0, 1000, 10000}, annual_rate_percent : {0, 120}, months : {0, 3}]
    \cup [principal : {1000}] \cup {EmptyBody}

LoanCompareData ==
    [p1 : {1000, 10000}, r1 : {0, 120}, m1 : {3}, p2 : {1000}, r2 : {120}, m2 : {0, 3}]

GstData ==
    [amount : {1000, 1230}, gst_rate : {0, 1800}, mode : GstModes]
    \cup [amount : {1000, 1230}, gst_rate : {0, 1800}]

FdData ==
    [principal : {10000}, annual_rate : {0, 100}, years : {0, 1}, comp_per_year : {0, 2}]
    \cup [principal : {10000}, annual_rate : {0, 100}, years : {0, 1}]

RdData == [monthly_installment : {0, 1000}, annual_rate : {0, 120}, months : {3}]

\* custom_rate in hundredths.
CurrencyData ==
    [amount : CurrencyAmounts, from_code : CurrencyCodes, to_code : CurrencyCodes]
    \cup [amount : {12346}, from_code : {"usd", "XYZ"}, to_code : {"INR", "XYZ"},
          custom_rate : {8450}]

CreditScoreData ==
    [payment_history_pct : {500, 1000}, utilization_pct : {100},
     credit_age_years : {100}, inquiries : {0, 5}, dti_pct : {100, 1200}]

Requests ==
    [endpoint : {"/"}, data : {EmptyBody}]
    \cup [endpoint : {"/api/emi"}, data : EmiData]
    \cup [endpoint : {"/api/loan-compare"}, data : LoanCompareData]
    \cup [endpoint : {"/api/gst"}, data : GstData]
    \cup [endpoint : {"/api/fd"}, data : FdData]
    \cup [endpoint : {"/api/rd"}, data : RdData]
    \cup [endpoint : {"/api/currency"}, data : CurrencyData]
    \cup [endpoint : {"/api/bank-holidays"}, data : {EmptyBody}]
    \cup [endpoint : {"/api/credit-score"}, data : CreditScoreData]

Idle(w) == inflight[w].endpoint = "none"

\* The worker holds a request for this route and has not answered it.
Routed(w, route) == inflight[w].endpoint = route /\ response[w].status = 0

Responded(w) == response[w].status # 0

\* jsonify(result) of a calculator's result; an exception that leaves the
\* handler is Flask's 500 response.
Jsonify(result) ==
    IF result.ok
    THEN [status |-> 200, body |-> [k \in DOMAIN result \ {"ok"} |-> result[k]]]
    ELSE [status |-> 500, body |-> [error |-> result.error]]

\* The handler's effect: its response and what it called; the tables are
\* not written.
Respond(w, resp, ncalls, nconv) ==
    /\ response' = [response EXCEPT ![w] = resp]
    /\ calls' = [calls EXCEPT ![w] = ncalls]
    /\ conv' = [conv EXCEPT ![w] = nconv]
    /\ UNCHANGED <<STATIC_RATES_BASE_USD, BANK_HOLIDAYS_2025_IN, inflight,
                   fn, args, ret, ret2>>

Receive(w) ==
    /\ Idle(w)
    /\ \E req \in Requests : inflight' = [inflight EXCEPT ![w] = req]
    /\ UNCHANGED <<STATIC_RATES_BASE_USD, BANK_HOLIDAYS_2025_IN, response,
                   calls, conv, fn, args, ret, ret2>>

index(w) ==
    /\ Routed(w, "/")
    /\ Respond(w, [status |-> 200, body |-> [template |-> "index.html"]], 0, 0)

\* Mutant of api_emi: the summary is computed a second time for the reply.
api_emi_twice(w) ==
    /\ Routed(w, "/api/emi")
    /\ LET data == inflight[w].data
       IN  Respond(w, Jsonify(loan_summary(Get(data, "principal", 0),
                                           Get(data, "annual_rate_percent", 0),
                                           Get(data, "months", 0))), 2, 0)

api_emi(w) ==
    /\ Routed(w, "/api/emi")
    /\ LET data == inflight[w].data
           p == Get(data, "principal", 0)
           r == Get(data, "annual_rate_percent", 0)
           m == Get(data, "months", 0)
       IN  Respond(w, Jsonify(loan_summary(p, r, m)), 1, 0)

api_loan_compare(w) ==
    /\ Routed(w, "/api/loan-compare")
    /\ LET data == inflight[w].data
           a == loan_summary(data.p1, data.r1, data.m1)
           b == loan_summary(data.p2, data.r2, data.m2)
       IN  IF ~a.ok THEN Respond(w, Jsonify(a), 1, 0)
           ELSE IF ~b.ok THEN Respond(w, Jsonify(b), 2, 0)
           ELSE Respond(w, [status |-> 200,
                            body |-> [loanA |-> Jsonify(a).body,
                                      loanB |-> Jsonify(b).body]], 2, 0)

api_gst(w) ==
    /\ Routed(w, "/api/gst")
    /\ LET data == inflight[w].data
           mode == Get(data, "mode", "add")
       IN  Respond(w, Jsonify(gst_breakup(data.amount, data.gst_rate, mode)), 1, 0)

api_fd(w) ==
    /\ Routed(w, "/api/fd")
    /\ LET data == inflight[w].data
           comp == Get(data, "comp_per_year", 4)
       IN  Respond(w, Jsonify(fd_maturity(data.principal, data.annual_rate,
                                          data.years, comp)), 1, 0)

api_rd(w) ==
    /\ Routed(w, "/api/rd")
    /\ LET data == inflight[w].data
       IN  Respond(w, Jsonify(rd_maturity(data.monthly_installment,
                                          data.annual_rate, data.months)), 1, 0)

Unsupported ==
    [status |-> 400,
     body |-> [error |-> "Unsupported currency in static table. Provide custom_rate or update server rates."]]

\* The conversion of api_currency by the table: a code absent from the
\* table at a lookup is a KeyError.
ViaUsd(amount, from_code, to_code) ==
    IF from_code \notin DOMAIN STATIC_RATES_BASE_USD
       \/ to_code \notin DOMAIN STATIC_RATES_BASE_USD
    THEN [status |-> 500, body |-> [error |-> "KeyError"]]
    ELSE IF STATIC_RATES_BASE_USD[from_code] = 0
    THEN [status |-> 500, body |-> [error |-> "ZeroDivisionError"]]
    ELSE [status |-> 200,
          body |-> [converted |-> Round4(amount * STATIC_RATES_BASE_USD[to_code],
                                         STATIC_RATES_BASE_USD[from_code]),
                    rate_used |-> Reduce(STATIC_RATES_BASE_USD[to_code],
                                         STATIC_RATES_BASE_USD[from_code]),
                    note |-> "Static demo rates"]]

CustomRate(amount, rate) ==
    [status |-> 200,
     body |-> [converted |-> Round4(amount * rate, 100),
               rate_used |-> Reduce(rate, 100),
               note |-> "Custom rate"]]

\* Mutant of api_currency: the table test joins the two codes with "and".
api_currency_and(w) ==
    /\ Routed(w, "/api/currency")
    /\ LET data == inflight[w].data
           from_code == upper(data.from_code)
           to_code == upper(data.to_code)
       IN  IF "custom_rate" \in DOMAIN data
           THEN Respond(w, CustomRate(data.amount, data.custom_rate), 0, 1)
           ELSE IF from_code \notin DOMAIN STATIC_RATES_BASE_USD
                   /\ to_code \notin DOMAIN STATIC_RATES_BASE_USD
           THEN Respond(w, Unsupported, 0, 0)
           ELSE Respond(w, ViaUsd(data.amount, from_code, to_code), 0, 1)

\* Mutant of api_currency: a custom rate is kept in the table for to_code.
api_currency_keeps_rate(w) ==
    /\ Routed(w, "/api/currency")
    /\ LET data == inflight[w].data
           from_code == upper(data.from_code)
           to_code == upper(data.to_code)
           resp == IF "custom_rate" \in DOMAIN data
                   THEN CustomRate(data.amount, data.custom_rate)
                   ELSE IF from_code \notin DOMAIN STATIC_RATES_BASE_USD
                           \/ to_code \notin DOMAIN STATIC_RATES_BASE_USD
                   THEN Unsupported
                   ELSE ViaUsd(data.amount, from_code, to_code)
       IN  /\ response' = [response EXCEPT ![w] = resp]
           /\ conv' = [conv EXCEPT ![w] = IF resp.status = 400 THEN 0 ELSE 1]
           /\ STATIC_RATES_BASE_USD' =
                 IF "custom_rate" \in DOMAIN data
                 THEN [c \in DOMAIN STATIC_RATES_BASE_USD \cup {to_code} |->
                         IF c = to_code THEN data.custom_rate
                         ELSE STATIC_RATES_BASE_USD[c]]
                 ELSE STATIC_RATES_BASE_USD
           /\ UNCHANGED <<BANK_HOLIDAYS_2025_IN, inflight, calls, fn, args, ret, ret2>>

\* api_currency converts in the handler itself and calls no calculator
\* function; conv counts the conversions it computes.
api_currency(w) ==
    /\ Routed(w, "/api/currency")
    /\ LET data == inflight[w].data
           amount == data.amount
           from_code == upper(data.from_code)
           to_code == upper(data.to_code)
       IN  IF "custom_rate" \in DOMAIN data
           THEN Respond(w, CustomRate(amount, data.custom_rate), 0, 1)
           ELSE IF from_code \notin DOMAIN STATIC_RATES_BASE_USD
                   \/ to_code \notin DOMAIN STATIC_RATES_BASE_USD
           THEN Respond(w, Unsupported, 0, 0)
           ELSE Respond(w, ViaUsd(amount, from_code, to_code), 0, 1)

api_bank_holidays(w) ==
    /\ Routed(w, "/api/bank-holidays")
    /\ \E today \in Today :
          Respond(w, [status |-> 200,
                      body |-> [country |-> "India", year |-> 2025,
                                today |-> today,
                                holidays |-> BANK_HOLIDAYS_2025_IN]], 0, 0)

Band(score) ==
    IF score >= 750 THEN "Excellent"
    ELSE IF score >= 700 THEN "Good"
    ELSE IF score >= 650 THEN "Fair"
    ELSE "Poor"

api_credit_score(w) ==
    /\ Routed(w, "/api/credit-score")
    /\ LET data == inflight[w].data
           score == estimate_credit_score(data.payment_history_pct,
                                          data.utilization_pct,
                                          data.credit_age_years,
                                          data.inquiries, data.dti_pct)
       IN  Respond(w, [status |-> 200,
                       body |-> [score |-> score, band |-> Band(score)]], 1, 0)

\* The response is sent; the request's records are discarded.
Finish(w) ==
    /\ Responded(w)
    /\ inflight' = [inflight EXCEPT ![w] = NoRequest]
    /\ response' = [response EXCEPT ![w] = NoResponse]
    /\ calls' = [calls EXCEPT ![w] = 0]
    /\ conv' = [conv EXCEPT ![w] = 0]
    /\ UNCHANGED <<STATIC_RATES_BASE_USD, BANK_HOLIDAYS_2025_IN, fn, args, ret, ret2>>

Init ==
    /\ ServerInit
    /\ fn = "none"
    /\ args = EmptyBody
    /\ ret = NotCalled
    /\ ret2 = NotCalled

Next ==
    \E w \in Workers :
        \/ Receive(w)
        \/ index(w)
        \/ api_emi(w)
        \/ api_loan_compare(w)
        \/ api_gst(w)
        \/ api_fd(w)
        \/ api_rd(w)
        \/ api_currency(w)
        \/ api_bank_holidays(w)
        \/ api_credit_score(w)
        \/ Finish(w)

Spec == Init /\ [][Next]_vars

-----------------------------------------------------------------------------
(* Properties of the calculators, checked under Calc *)

Called == ret # NotCalled

CreditCalled == fn = "estimate_credit_score" /\ Called

ScoreWith(a) == estimate_credit_score(a.ph, a.util, a.age, a.inq, a.dti)

\* C1: for every combination of inputs, negative values and values above
\* 100 included, estimate_credit_score does not fail and returns an integer
\* score with 300 <= score <= 850.
C1_ScoreInRange ==
    CreditCalled => ret.ok /\ ret.score \in 300 .. 850

\* C1 witness: inputs outside the clamped ranges were scored, and both ends
\* of the range are hit.
C1_Witness ==
    /\ CreditCalled /\ ret.ok
    /\ args.ph > 1000 /\ args.util < 0 /\ args.dti < 0 /\ args.inq < 0
    /\ ret.score = 850

\* C2: holding the other four inputs fixed, raising payment_history_pct
\* never lowers the score, and raising utilization_pct, inquiries or
\* dti_pct never raises it, for inputs in and out of the clamped ranges.
C2_Monotone ==
    CreditCalled /\ ret.ok =>
        /\ \A x \in PctInputs :
              /\ x >= args.ph => ScoreWith([args EXCEPT !.ph = x]) >= ret.score
              /\ x >= args.util => ScoreWith([args EXCEPT !.util = x]) <= ret.score
              /\ x >= args.dti => ScoreWith([args EXCEPT !.dti = x]) <= ret.score
        /\ \A q \in -1 .. MaxInquiries :
              q >= args.inq => ScoreWith([args EXCEPT !.inq = q]) <= ret.score

\* C2 witness: a scored input from which each of the four inputs can be
\* raised with a strict change of the score in the stated direction.
C2_Witness ==
    /\ CreditCalled /\ ret.ok
    /\ \E x \in PctInputs :
          x > args.ph /\ ScoreWith([args EXCEPT !.ph = x]) > ret.score
    /\ \E x \in PctInputs :
          x > args.util /\ ScoreWith([args EXCEPT !.util = x]) < ret.score
    /\ \E x \in PctInputs :
          x > args.dti /\ ScoreWith([args EXCEPT !.dti = x]) < ret.score
    /\ \E q \in -1 .. MaxInquiries :
          q > args.inq /\ ScoreWith([args EXCEPT !.inq = q]) < ret.score

LoanCalled == fn = "loan_summary" /\ Called

\* C4: for degenerate loan input (principal <= 0 or months <= 0, any rate)
\* loan_summary signals no failure and returns emi = 0, total_payment = 0
\* and total_interest = 0.
C4_DegenerateLoanIsZero ==
    LoanCalled /\ (args.principal <= 0 \/ args.months <= 0) =>
        /\ ret.ok
        /\ ret.emi = 0 /\ ret.total_payment = 0 /\ ret.total_interest = 0

RegularLoan ==
    LoanCalled /\ args.principal > 0 /\ args.rate >= 0 /\ args.months > 0

\* Half a cent a month plus half a cent, doubled: 2 * (0.005 * months + 0.005).
TwiceTolerance == Sub * args.months + Sub

\* C5: for principal > 0, rate >= 0 and months > 0, loan_summary returns
\* emi > 0; total_payment >= principal when rate > 0; and
\* |total_payment - principal| <= 0.005 * months + 0.005 when rate = 0.
C5_RegularLoan ==
    RegularLoan =>
        /\ ret.ok /\ ret.emi > 0
        /\ args.rate > 0 => ret.total_payment >= args.principal
        /\ args.rate = 0 =>
              2 * Abs(ret.total_payment - args.principal) <= TwiceTolerance

GstRoundTripDone ==
    /\ fn = "gst_breakup" /\ args.mode = "add"
    /\ args.rate >= 0 /\ args.amount % Sub = 0
    /\ ret2 # NotCalled

\* C6: for an amount in whole cents and a rate >= 0, the base that
\* gst_breakup(gross, rate, "remove") returns for the gross of
\* gst_breakup(amount, rate, "add") differs from amount by at most 0.01.
C6_GstRoundTrip ==
    GstRoundTripDone => ret2.ok /\ Abs(ret2.base - args.amount) <= Sub

\* C6 witness: a round trip at a positive rate whose tax was rounded (the
\* exact tax is not a whole number of cents).
C6_Witness ==
    /\ GstRoundTripDone /\ ret2.ok
    /\ args.rate > 0 /\ args.amount > 0
    /\ (args.amount * args.rate) % (100 * 100 * Sub) # 0
    /\ ret.gst > 0 /\ ret2.gst = ret.gst

\* C7: fd_maturity with years = 0 returns maturity equal to the principal
\* and interest 0 for any principal, rate and comp_per_year, without
\* failing.
C7_FdZeroYears ==
    fn = "fd_maturity" /\ Called /\ args.years = 0 =>
        ret.ok /\ ret.maturity = args.principal /\ ret.interest = 0

-----------------------------------------------------------------------------
(* Properties of the request handlers, checked under Spec *)

CurrencyAnswered(w) == inflight[w].endpoint = "/api/currency" /\ Responded(w)

NoCustomRate(w) == "custom_rate" \notin DOMAIN inflight[w].data

UnsupportedCode(w) ==
    \/ upper(inflight[w].data.from_code) \notin DOMAIN STATIC_RATES_BASE_USD
    \/ upper(inflight[w].data.to_code) \notin DOMAIN STATIC_RATES_BASE_USD

\* C3: with no custom rate, when from_code or to_code (upper-cased) is not
\* in STATIC_RATES_BASE_USD, api_currency answers 400 with the
\* unsupported-currency error, the response carries neither converted nor
\* rate_used, and no conversion by a table rate is computed.
C3_UnsupportedCurrency ==
    \A w \in Workers :
        CurrencyAnswered(w) /\ NoCustomRate(w) /\ UnsupportedCode(w) =>
            /\ response[w] = Unsupported
            /\ DOMAIN response[w].body = {"error"}
            /\ conv[w] = 0

\* C3 witness: a request from a listed code (given in lower case) to an
\* unlisted one was answered.
C3_Witness ==
    \E w \in Workers :
        /\ CurrencyAnswered(w) /\ NoCustomRate(w)
        /\ inflight[w].data.from_code = "usd"
        /\ inflight[w].data.to_code = "XYZ"
        /\ response[w].status = 400

SameCode(w) == inflight[w].data.from_code = inflight[w].data.to_code

ApiHandlers ==
    {"/api/emi", "/api/loan-compare", "/api/gst", "/api/fd", "/api/rd",
     "/api/currency", "/api/credit-score"}

C10_TablesImmutable ==
    /\ STATIC_RATES_BASE_USD = InitialRates
    /\ Cardinality(DOMAIN STATIC_RATES_BASE_USD) = 7
    /\ BANK_HOLIDAYS_2025_IN = InitialHolidays
    /\ \A w \in Workers :
          Responded(w) /\ inflight[w].endpoint = "/api/bank-holidays" =>
              response[w].body.holidays = InitialHolidays

\* C10 witness: a conversion with a custom rate for an unlisted code has
\* been answered by one worker while the other has answered the
\* bank-holidays endpoint.
C10_Witness ==
    \E w, v \in Workers :
        /\ CurrencyAnswered(w) /\ ~NoCustomRate(w)
        /\ inflight[w].data.to_code = "XYZ"
        /\ Responded(v) /\ inflight[v].endpoint = "/api/bank-holidays"
        /\ Len(response[v].body.holidays) = 11

=============================================================================
